---- MODULE Spec2Model ----
(***************************************************************************)
(* Model of ai_fitness.py: the SQLite store (user_profile, chat_history,   *)
(* workout_log), the schedule generator and the chat input handler.        *)
(*                                                                         *)
(* Python strings are TLA+ strings (compared and sliced character by       *)
(* character).  Python None is the empty tuple <<>> and a value v of an    *)
(* optional column is the one-element tuple <<v>>.                         *)
(***************************************************************************)
EXTENDS Integers, Sequences, FiniteSets, TLC

VARIABLES
    foreign_keys,   \* whether the SQLite build enforces foreign keys on a new connection
    clock,          \* CURRENT_TIMESTAMP, in whole seconds
    db,             \* the contents of fitness_data.db
    ret,            \* the last operation called, its argument and what it returned
    api_calls,      \* number of completion calls made by the last operation
    current_profile_id, \* st.session_state['current_profile_id'], None when absent
    messages,       \* st.session_state.messages, the in-memory transcript
    pc,             \* where the chat input handler is: "idle", "calling", "streaming"
    prompt,         \* the text typed into st.chat_input for the turn in flight
    api_messages,   \* the message list of the completion request of that turn
    response_stream,\* the handler's response_stream: the text assembled so far
    chunks,         \* the chunk contents streaming_response has yielded so far
    bmi_input,      \* the (weight_kg, height_cm) calculate_bmi is called with
    ctx,            \* the handler's (ctx_goal, ..., ctx_notes), <<>> outside a turn
    ctx_string      \* the handler's context_string

ui == <<current_profile_id, messages, pc, prompt, api_messages, response_stream,
        chunks, bmi_input, ctx, ctx_string>>

vars == <<foreign_keys, clock, db, ret, api_calls, ui>>

\* ------------------------------------------------------------------ bounds
MaxId == 3      \* highest AUTOINCREMENT id of user_profile the model hands out
MaxRows == 1    \* most rows a caller writes to chat_history, and to workout_log, in Spec
MaxChat == 2    \* most rows of chat_history in SpecConversation and SpecSchedule
MaxTime == 1    \* last second of the clock

\* ------------------------------------------------------------ value domains
None == <<>>
Some(v) == <<v>>

Ids == 1..MaxId
Names == {"Alex", "Default"}

\* sqlite's BINARY collation on the names of the model: "Alex" < "Default"
NameRank(n) == IF n = "Alex" THEN 1 ELSE 2

\* column defaults of user_profile (fitness_goal, experience_level, age, sex,
\* height_cm, weight_kg, activity_level, dietary_prefs, equipment, profile_notes)
DefaultDetails ==
    <<"General Fitness", "Beginner", None, None, None, None, None, None, None, None>>

\* a profile with every optional attribute set
FullDetails ==
    <<"Lose fat", "Advanced", Some(30), Some("Male"), Some(1755), Some(700),
      Some("Sedentary (little to no exercise)"), Some("vegan"), Some("dumbbells"),
      Some("bad knee")>>

\* ----------------------------------------------------------------- strings
startswith(s, prefix) ==
    Len(s) >= Len(prefix) /\ SubSeq(s, 1, Len(prefix)) = prefix

contains(s, sub) ==
    \E i \in 1..(Len(s) - Len(sub) + 1) : SubSeq(s, i, i + Len(sub) - 1) = sub

IsSpace(c) == c \in {" ", "\n", "\t"}

RECURSIVE lstrip(_)
lstrip(s) ==
    IF Len(s) > 0 /\ IsSpace(SubSeq(s, 1, 1)) THEN lstrip(SubSeq(s, 2, Len(s))) ELSE s

RECURSIVE rstrip(_)
rstrip(s) ==
    IF Len(s) > 0 /\ IsSpace(SubSeq(s, Len(s), Len(s)))
    THEN rstrip(SubSeq(s, 1, Len(s) - 1)) ELSE s

strip(s) == rstrip(lstrip(s))

\* ------------------------------------------------------------------- store
EmptyDb ==
    [user_profile |-> <<>>, seq_user_profile |-> 0,
     chat_history |-> <<>>, workout_log |-> <<>>]

ProfileIds(d) == DOMAIN d.user_profile

ProfileNames(d) == {d.user_profile[i].profile_name : i \in ProfileIds(d)}

\* InsertProfile on a table whose id is INTEGER PRIMARY KEY without
\* AUTOINCREMENT: the id is one more than the largest id in the table
InsertProfile_ReuseIds(d, name) ==
    LET new_id == IF ProfileIds(d) = {} THEN 1
                  ELSE 1 + CHOOSE i \in ProfileIds(d) : \A j \in ProfileIds(d) : j <= i
        row == [profile_name |-> name, details |-> DefaultDetails]
    IN [d EXCEPT !.user_profile =
                    [i \in ProfileIds(d) \cup {new_id} |->
                        IF i = new_id THEN row ELSE d.user_profile[i]],
                 !.seq_user_profile = new_id]

\* INSERT INTO user_profile (profile_name) VALUES (name): the id is one more
\* than the largest id ever used (AUTOINCREMENT), the other columns default
InsertProfile(d, name) ==
    LET new_id == d.seq_user_profile + 1
        row == [profile_name |-> name, details |-> DefaultDetails]
    IN [d EXCEPT !.user_profile =
                    [i \in ProfileIds(d) \cup {new_id} |->
                        IF i = new_id THEN row ELSE d.user_profile[i]],
                 !.seq_user_profile = new_id]

init_db(d) ==
    IF "Default" \in ProfileNames(d) THEN d ELSE InsertProfile(d, "Default")

\* the (id, profile_name) rows, ORDER BY profile_name ASC
RECURSIVE SortedByName(_, _)
SortedByName(d, ids) ==
    IF ids = {} THEN <<>>
    ELSE LET first == CHOOSE i \in ids : \A j \in ids :
                          NameRank(d.user_profile[i].profile_name)
                              <= NameRank(d.user_profile[j].profile_name)
         IN <<<<first, d.user_profile[first].profile_name>>>>
                \o SortedByName(d, ids \ {first})

get_all_profiles(d) == SortedByName(d, ProfileIds(d))

\* get_profile_details returning None (no tuple) when fetchone() finds no row
get_profile_details_NoneIfMissing(d, profile_id) ==
    IF profile_id \in ProfileIds(d)
    THEN d.user_profile[profile_id].details
    ELSE <<>>

get_profile_details(d, profile_id) ==
    IF profile_id \in ProfileIds(d)
    THEN d.user_profile[profile_id].details
    ELSE DefaultDetails

\* create_profile on a table whose profile_name column is not UNIQUE
create_profile_NotUnique(d, profile_name, fault) ==
    IF fault THEN [db |-> d, val |-> None]
    ELSE LET inserted == InsertProfile(d, profile_name)
         IN [db |-> inserted, val |-> Some(inserted.seq_user_profile)]  \* cursor.lastrowid

\* fault: the sqlite call raises something other than IntegrityError.
\* The result is the new id, or None.
create_profile(d, profile_name, fault) ==
    IF fault THEN [db |-> d, val |-> None]
    ELSE IF profile_name \in ProfileNames(d)
    THEN [db |-> d, val |-> None]                       \* UNIQUE: IntegrityError
    ELSE LET inserted == InsertProfile(d, profile_name)
         IN [db |-> inserted, val |-> Some(inserted.seq_user_profile)]  \* cursor.lastrowid

update_profile(d, profile_id, details, fault) ==
    IF fault THEN [db |-> d, val |-> FALSE]
    ELSE [db |-> [d EXCEPT !.user_profile =
                     [i \in ProfileIds(d) |->
                         IF i = profile_id
                         THEN [d.user_profile[i] EXCEPT !.details = details]
                         ELSE d.user_profile[i]]],
          val |-> TRUE]

\* the rows of a table (a sequence of rows) that are not of profile_id
RowsNotOf(rows, profile_id) ==
    SelectSeq(rows, LAMBDA r : r.profile_id # profile_id)

RowsOf(rows, profile_id) ==
    SelectSeq(rows, LAMBDA r : r.profile_id = profile_id)

\* DELETE FROM user_profile WHERE id = ?  (ON DELETE CASCADE acts only when
\* the connection enforces foreign keys; the code never issues the PRAGMA)
DeleteProfileRow(d, profile_id) ==
    LET without == [d EXCEPT !.user_profile =
                       [i \in ProfileIds(d) \ {profile_id} |-> d.user_profile[i]]]
    IN IF foreign_keys /\ profile_id \in ProfileIds(d)
       THEN [without EXCEPT !.chat_history = RowsNotOf(d.chat_history, profile_id),
                            !.workout_log = RowsNotOf(d.workout_log, profile_id)]
       ELSE without

\* delete_profile refusing only when no profile is left (< 1 for <= 1)
delete_profile_OffByOne(d, profile_id, fault) ==
    IF Len(get_all_profiles(d)) < 1 THEN [db |-> d, val |-> FALSE]
    ELSE IF fault THEN [db |-> d, val |-> FALSE]
    ELSE [db |-> DeleteProfileRow(d, profile_id), val |-> TRUE]

\* delete_profile reporting the refusal as a success
delete_profile_RefusalTrue(d, profile_id, fault) ==
    IF Len(get_all_profiles(d)) <= 1 THEN [db |-> d, val |-> TRUE]
    ELSE IF fault THEN [db |-> d, val |-> FALSE]
    ELSE [db |-> DeleteProfileRow(d, profile_id), val |-> TRUE]

delete_profile(d, profile_id, fault) ==
    IF Len(get_all_profiles(d)) <= 1 THEN [db |-> d, val |-> FALSE]
    ELSE IF fault THEN [db |-> d, val |-> FALSE]
    ELSE [db |-> DeleteProfileRow(d, profile_id), val |-> TRUE]

\* the orders in which SELECT ... ORDER BY timestamp ASC may return rows:
\* ascending by timestamp, rows of one timestamp in an order SQL leaves open
OrderedByTimestamp(rows) ==
    {s \in [1..Len(rows) -> 1..Len(rows)] :
        /\ \A i, j \in 1..Len(rows) : i # j => s[i] # s[j]
        /\ \A i, j \in 1..Len(rows) : i < j => rows[s[i]].timestamp <= rows[s[j]].timestamp}

\* the set of lists load_chat_history may return
load_chat_history(d, profile_id, fault) ==
    IF fault THEN {<<>>}
    ELSE LET rows == RowsOf(d.chat_history, profile_id)
         IN {[k \in 1..Len(rows) |-> [role |-> rows[s[k]].role, content |-> rows[s[k]].content]] :
                s \in OrderedByTimestamp(rows)}

\* save_chat_message whose INSERT is never committed
save_chat_message_NoCommit(d, profile_id, role, content, fault) ==
    IF fault \/ (foreign_keys /\ profile_id \notin ProfileIds(d))
    THEN [db |-> d, val |-> FALSE]
    ELSE [db |-> d, val |-> TRUE]

save_chat_message(d, profile_id, role, content, fault) ==
    IF fault \/ (foreign_keys /\ profile_id \notin ProfileIds(d))
    THEN [db |-> d, val |-> FALSE]
    ELSE [db |-> [d EXCEPT !.chat_history =
                     Append(@, [profile_id |-> profile_id, timestamp |-> clock,
                                role |-> role, content |-> content])],
          val |-> TRUE]

clear_profile_history(d, profile_id, fault) ==
    IF fault THEN [db |-> d, val |-> FALSE]
    ELSE [db |-> [d EXCEPT !.chat_history = RowsNotOf(@, profile_id)], val |-> TRUE]

\* log_entry whose INSERT is committed before the failure is raised
log_entry_CommitsThenFails(d, profile_id, log_type, notes, weight_kg, fault) ==
    IF foreign_keys /\ profile_id \notin ProfileIds(d)
    THEN [db |-> d, val |-> FALSE]
    ELSE [db |-> [d EXCEPT !.workout_log =
                     Append(@, [profile_id |-> profile_id, timestamp |-> clock,
                                log_type |-> log_type, notes |-> notes,
                                weight_kg |-> weight_kg])],
          val |-> ~fault]

log_entry(d, profile_id, log_type, notes, weight_kg, fault) ==
    IF fault \/ (foreign_keys /\ profile_id \notin ProfileIds(d))
    THEN [db |-> d, val |-> FALSE]
    ELSE [db |-> [d EXCEPT !.workout_log =
                     Append(@, [profile_id |-> profile_id, timestamp |-> clock,
                                log_type |-> log_type, notes |-> notes,
                                weight_kg |-> weight_kg])],
          val |-> TRUE]

\* the orders in which SELECT ... ORDER BY timestamp DESC may return rows
OrderedByTimestampDesc(rows) ==
    {s \in [1..Len(rows) -> 1..Len(rows)] :
        /\ \A i, j \in 1..Len(rows) : i # j => s[i] # s[j]
        /\ \A i, j \in 1..Len(rows) : i < j => rows[s[i]].timestamp >= rows[s[j]].timestamp}

\* the set of lists get_recent_logs may return: the first `limit` rows of the
\* profile, latest first
get_recent_logs(d, profile_id, limit, fault) ==
    IF fault THEN {<<>>}
    ELSE LET rows == RowsOf(d.workout_log, profile_id)
             n == IF Len(rows) < limit THEN Len(rows) ELSE limit
         IN {[k \in 1..n |-> [timestamp |-> rows[s[k]].timestamp,
                              log_type |-> rows[s[k]].log_type,
                              notes |-> rows[s[k]].notes,
                              weight_kg |-> rows[s[k]].weight_kg]] :
                s \in OrderedByTimestampDesc(rows)}

\* {key: value for key, value in history}: a dict keeps one item per key, at
\* the place the key was first inserted, with the value inserted last.  The
\* dict is the list of its items in iteration order.
DictOf(history) ==
    LET firsts == SelectSeq([k \in 1..Len(history) |-> k],
                            LAMBDA k : \A j \in 1..(k - 1) :
                                          history[j].timestamp # history[k].timestamp)
        last(ts) == CHOOSE k \in 1..Len(history) :
                        /\ history[k].timestamp = ts
                        /\ \A j \in (k + 1)..Len(history) : history[j].timestamp # ts
    IN [n \in 1..Len(firsts) |->
           [timestamp |-> history[firsts[n]].timestamp,
            weight_kg |-> history[last(history[firsts[n]].timestamp)].weight_kg]]

\* the set of dicts get_weight_history may return (a timestamp of the model
\* is the whole second that the column's text and its datetime both name)
get_weight_history(d, profile_id, fault) ==
    IF fault THEN {<<>>}
    ELSE LET rows == SelectSeq(RowsOf(d.workout_log, profile_id),
                               LAMBDA r : r.weight_kg # None)
         IN {DictOf([k \in 1..Len(rows) |-> [timestamp |-> rows[s[k]].timestamp,
                                             weight_kg |-> rows[s[k]].weight_kg[1]]]) :
                s \in OrderedByTimestamp(rows)}

\* ------------------------------------------------------ schedule generator
LeadIn == "**Here is a sample 4-week schedule based on your profile:**"
SCHEDULE_START == "[SCHEDULE_START]"
SCHEDULE_END == "[SCHEDULE_END]"

\* what the completion endpoint may do with one request
ScheduleTexts == {"Week 1 plan...", "[SCHEDULE_END]"}
ApiOutcomes ==
    {[kind |-> "ok", content |-> t] : t \in ScheduleTexts}
        \cup {[kind |-> "GroqError", content |-> "rate limit"],
              [kind |-> "Exception", content |-> "timed out"]}

\* schedule_message without the closing marker
schedule_message_NoEnd(schedule_content) ==
    LeadIn \o "\n" \o SCHEDULE_START \o "\n" \o schedule_content

schedule_message(schedule_content) ==
    LeadIn \o "\n" \o SCHEDULE_START \o "\n" \o schedule_content \o "\n" \o SCHEDULE_END

\* calls: the number of completion requests sent
generate_and_save_schedule(d, profile_id, api, fault) ==
    LET details == get_profile_details(d, profile_id)
    IN IF Len(details) = 0                                   \* if not details
       THEN [db |-> d, val |-> FALSE, calls |-> 0]
       ELSE IF api.kind # "ok"                               \* except GroqError / Exception
       THEN [db |-> d, val |-> FALSE, calls |-> 1]
       ELSE LET saved == save_chat_message(d, profile_id, "assistant",
                                           schedule_message(api.content), fault)
            IN [db |-> saved.db, val |-> saved.val, calls |-> 1]

\* ------------------------------------------------- the store's operations
\* ret: the operation, its profile_id or profile_name argument, and its
\* result in the field of its type (the other fields are at rest)
NoResult(op) ==
    [op |-> op, profile_id |-> 0, profile_name |-> "", ok |-> FALSE,
     new_id |-> None, rows |-> <<>>, details |-> <<>>]
BoolResult(op, profile_id, val) == [NoResult(op) EXCEPT !.profile_id = profile_id, !.ok = val]
IdResult(op, profile_name, val) == [NoResult(op) EXCEPT !.profile_name = profile_name, !.new_id = val]
RowsResult(op, profile_id, val) == [NoResult(op) EXCEPT !.profile_id = profile_id, !.rows = val]
DetailsResult(op, profile_id, val) == [NoResult(op) EXCEPT !.profile_id = profile_id, !.details = val]

Init ==
    /\ foreign_keys \in BOOLEAN
    /\ clock = 0
    /\ db = init_db(EmptyDb)
    /\ ret = NoResult("init_db")
    /\ api_calls = 0
    /\ current_profile_id = None
    /\ messages = <<>>
    /\ pc = "idle"
    /\ prompt = ""
    /\ api_messages = <<>>
    /\ response_stream = ""
    /\ chunks = <<>>
    /\ bmi_input = <<>>
    /\ ctx = <<>>
    /\ ctx_string = ""

Tick ==
    /\ clock < MaxTime
    /\ clock' = clock + 1
    /\ UNCHANGED <<foreign_keys, db, ret, api_calls, ui>>

InitDb ==
    /\ "Default" \in ProfileNames(db) \/ db.seq_user_profile < MaxId
    /\ db' = init_db(db)
    /\ ret' = NoResult("init_db")
    /\ api_calls' = 0
    /\ UNCHANGED <<foreign_keys, clock, ui>>

CreateProfile(profile_name, fault) ==
    LET r == create_profile(db, profile_name, fault)
    IN /\ db.seq_user_profile < MaxId
       /\ db' = r.db
       /\ ret' = IdResult("create_profile", profile_name, r.val)
       /\ api_calls' = 0
       /\ UNCHANGED <<foreign_keys, clock, ui>>

UpdateProfile(profile_id, details, fault) ==
    LET r == update_profile(db, profile_id, details, fault)
    IN /\ db' = r.db
       /\ ret' = BoolResult("update_profile", profile_id, r.val)
       /\ api_calls' = 0
       /\ UNCHANGED <<foreign_keys, clock, ui>>

DeleteProfile(profile_id, fault) ==
    LET r == delete_profile(db, profile_id, fault)
    IN /\ db' = r.db
       /\ ret' = BoolResult("delete_profile", profile_id, r.val)
       /\ api_calls' = 0
       /\ UNCHANGED <<foreign_keys, clock, ui>>

GetProfileDetails(profile_id) ==
    /\ ret' = DetailsResult("get_profile_details", profile_id, get_profile_details(db, profile_id))
    /\ api_calls' = 0
    /\ UNCHANGED <<foreign_keys, clock, db, ui>>

LoadChatHistory(profile_id, fault) ==
    \E history \in load_chat_history(db, profile_id, fault) :
        /\ ret' = RowsResult("load_chat_history", profile_id, history)
        /\ api_calls' = 0
        /\ UNCHANGED <<foreign_keys, clock, db, ui>>

SaveChatMessage(profile_id, role, content, fault) ==
    LET r == save_chat_message(db, profile_id, role, content, fault)
    IN /\ db' = r.db
       /\ ret' = BoolResult("save_chat_message", profile_id, r.val)
       /\ api_calls' = 0
       /\ UNCHANGED <<foreign_keys, clock, ui>>

ClearProfileHistory(profile_id, fault) ==
    LET r == clear_profile_history(db, profile_id, fault)
    IN /\ db' = r.db
       /\ ret' = BoolResult("clear_profile_history", profile_id, r.val)
       /\ api_calls' = 0
       /\ UNCHANGED <<foreign_keys, clock, ui>>

LogEntry(profile_id, log_type, notes, weight_kg, fault) ==
    LET r == log_entry(db, profile_id, log_type, notes, weight_kg, fault)
    IN /\ db' = r.db
       /\ ret' = BoolResult("log_entry", profile_id, r.val)
       /\ api_calls' = 0
       /\ UNCHANGED <<foreign_keys, clock, ui>>

GetRecentLogs(profile_id, fault) ==
    \E logs \in get_recent_logs(db, profile_id, 10, fault) :
        /\ ret' = RowsResult("get_recent_logs", profile_id, logs)
        /\ api_calls' = 0
        /\ UNCHANGED <<foreign_keys, clock, db, ui>>

GetWeightHistory(profile_id, fault) ==
    \E weight_data \in get_weight_history(db, profile_id, fault) :
        /\ ret' = RowsResult("get_weight_history", profile_id, weight_data)
        /\ api_calls' = 0
        /\ UNCHANGED <<foreign_keys, clock, db, ui>>

GenerateAndSaveSchedule(profile_id, api, fault) ==
    LET r == generate_and_save_schedule(db, profile_id, api, fault)
    IN /\ db' = r.db
       /\ ret' = BoolResult("generate_and_save_schedule", profile_id, r.val)
       /\ api_calls' = r.calls
       /\ UNCHANGED <<foreign_keys, clock, ui>>

\* the turns and log entries the model's callers write
Turns == {<<"user", "hello">>, <<"assistant", "ok">>}

\* ---- the profile store and what hangs off a profile (no clock: all rows
\* ---- are written within one second)
Next ==
    \/ InitDb
    \/ \E n \in Names, fault \in BOOLEAN : CreateProfile(n, fault)
    \/ \E i \in Ids, fault \in BOOLEAN : UpdateProfile(i, FullDetails, fault)
    \/ \E i \in Ids, fault \in BOOLEAN : DeleteProfile(i, fault)
    \/ \E i \in Ids, fault \in BOOLEAN :
          /\ i \in ProfileIds(db)
          /\ Len(db.chat_history) < MaxRows
          /\ SaveChatMessage(i, "user", "hello", fault)
    \/ \E i \in Ids :
          /\ i \in ProfileIds(db)
          /\ Len(db.workout_log) < MaxRows
          /\ LogEntry(i, "Workout", "ran 5k", None, FALSE)

Spec == Init /\ [][Next]_vars

\* ---- the conversation store over time
NextConversation ==
    \/ Tick
    \/ \E n \in Names : CreateProfile(n, FALSE)
    \/ \E i \in Ids : GetProfileDetails(i)
    \/ \E i \in Ids, t \in Turns, fault \in BOOLEAN :
          Len(db.chat_history) < MaxChat /\ SaveChatMessage(i, t[1], t[2], fault)
    \/ \E i \in Ids, fault \in BOOLEAN : LoadChatHistory(i, fault)
    \/ \E i \in Ids, fault \in BOOLEAN : ClearProfileHistory(i, fault)

SpecConversation == Init /\ [][NextConversation]_vars

\* ---- the schedule generator
NextSchedule ==
    \/ \E n \in Names : CreateProfile(n, FALSE)
    \/ \E i \in Ids : DeleteProfile(i, FALSE)
    \/ \E i \in Ids :
          /\ i \in ProfileIds(db)
          /\ Len(db.chat_history) < MaxRows
          /\ SaveChatMessage(i, "user", "hello", FALSE)
    \/ \E i \in Ids, api \in ApiOutcomes, fault \in BOOLEAN :
          Len(db.chat_history) < MaxChat /\ GenerateAndSaveSchedule(i, api, fault)

SpecSchedule == Init /\ [][NextSchedule]_vars

\* ---- profiles created and deleted, with rows written for the ids handed out
NextLifecycle ==
    \/ \E n \in Names : CreateProfile(n, FALSE)
    \/ \E i \in Ids : DeleteProfile(i, FALSE)
    \/ \E i \in 1..db.seq_user_profile :
          Len(db.chat_history) < MaxRows /\ SaveChatMessage(i, "user", "hello", FALSE)
    \/ \E i \in 1..db.seq_user_profile :
          Len(db.workout_log) < MaxRows /\ LogEntry(i, "Workout", "ran 5k", None, FALSE)
    \/ \E i \in Ids : LoadChatHistory(i, FALSE)
    \/ \E i \in Ids : UpdateProfile(i, FullDetails, FALSE)
    \/ \E i \in Ids : GetProfileDetails(i)

SpecLifecycle == Init /\ [][NextLifecycle]_vars

\* ---- the best-effort operations when the storage may fail
NextStorageFault ==
    \/ \E i \in Ids, fault \in BOOLEAN :
          Len(db.chat_history) < MaxRows /\ SaveChatMessage(i, "user", "hello", fault)
    \/ \E i \in Ids, fault \in BOOLEAN :
          Len(db.workout_log) < MaxRows /\ LogEntry(i, "Weigh-in", "", Some(700), fault)
    \/ \E i \in Ids, fault \in BOOLEAN : LoadChatHistory(i, fault)
    \/ \E i \in Ids, fault \in BOOLEAN : ClearProfileHistory(i, fault)
    \/ \E i \in Ids, fault \in BOOLEAN : GetRecentLogs(i, fault)
    \/ \E i \in Ids, fault \in BOOLEAN : GetWeightHistory(i, fault)

SpecStorageFault == Init /\ [][NextStorageFault]_vars

\* ---- the activity log over time
MaxLog == 2     \* most rows of workout_log in SpecLog

\* (log_type, notes, weight_kg) of the entries the model's callers write;
\* weights are in tenths of a kilogram
LogInputs ==
    {<<"Weigh-in", "", Some(700)>>, <<"Weigh-in", "", Some(712)>>,
     <<"Workout", "ran 5k", None>>}

NextLog ==
    \/ Tick
    \/ \E i \in Ids, e \in LogInputs :
          Len(db.workout_log) < MaxLog /\ LogEntry(i, e[1], e[2], e[3], FALSE)
    \/ \E i \in Ids : GetRecentLogs(i, FALSE)
    \/ \E i \in Ids : GetWeightHistory(i, FALSE)

SpecLog == Init /\ [][NextLog]_vars

\* ------------------------------------------------------------ the page run
MaxTranscript == 3  \* longest in-memory transcript a chat turn may leave
MaxStream == 2      \* most chunks of one response stream

experience_options == <<"Beginner", "Intermediate", "Advanced">>
sex_options == <<"Prefer not to say", "Male", "Female", "Other">>
activity_options ==
    <<"Sedentary (little to no exercise)",
      "Lightly Active (light exercise/sports 1-3 days/week)",
      "Moderately Active (moderate exercise/sports 3-5 days/week)",
      "Very Active (hard exercise/sports 6-7 days a week)",
      "Extra Active (very hard exercise/physical job)">>

\* the position of value (None or <<v>>) in options, counted from 1
get_option_index(options, value, default) ==
    IF value # None /\ \E k \in 1..Len(options) : options[k] = value[1]
    THEN CHOOSE k \in 1..Len(options) :
            options[k] = value[1] /\ \A j \in 1..(k - 1) : options[j] # value[1]
    ELSE default

OrElse(value, default) == IF value # None THEN value[1] ELSE default

\* what the settings widgets hold when the user has touched none of them;
\* heights and weights are in tenths (170.0 cm is 1700)
WidgetValues(details) ==
    [goal |-> details[1],
     experience |-> experience_options[get_option_index(experience_options, Some(details[2]), 1)],
     age |-> OrElse(details[3], 18),
     sex |-> sex_options[get_option_index(sex_options, details[4], 1)],
     height |-> OrElse(details[5], 1700),
     weight |-> OrElse(details[6], 700),
     activity |-> activity_options[get_option_index(activity_options, details[7], 1)],
     diet |-> OrElse(details[8], ""),
     equip |-> OrElse(details[9], ""),
     notes |-> OrElse(details[10], "")]

StripOrNone(text) == IF strip(text) # "" THEN Some(strip(text)) ELSE None

\* "Save profile changes if they occur": current is the stored tuple, w the
\* widget values
save_on_change(d, profile_id, current, w) ==
    LET changed ==
            \/ w.goal # current[1]
            \/ w.experience # current[2]
            \/ Some(w.age) # current[3]
            \/ Some(w.sex) # current[4]
            \/ Some(w.height) # current[5]
            \/ Some(w.weight) # current[6]
            \/ Some(w.activity) # current[7]
            \/ Some(w.diet) # current[8]
            \/ Some(w.equip) # current[9]
            \/ Some(w.notes) # current[10]
        saved ==
            <<w.goal, w.experience,
              IF w.age > 0 THEN Some(w.age) ELSE None,
              IF w.sex # "Prefer not to say" THEN Some(w.sex) ELSE None,
              IF w.height > 0 THEN Some(w.height) ELSE None,
              IF w.weight > 0 THEN Some(w.weight) ELSE None,
              Some(w.activity),
              StripOrNone(w.diet), StripOrNone(w.equip), StripOrNone(w.notes)>>
    IN IF changed /\ strip(w.goal) # ""
       THEN update_profile(d, profile_id, saved, FALSE).db
       ELSE d

Turn(role, content) == [role |-> role, content |-> content]

welcome_msg(profile_name) ==
    "Welcome to profile '" \o profile_name \o "'! How can I help you today?"

\* "Initialize chat history for the current profile": the possible outcomes
chat_init(d, profile_id, msgs) ==
    IF msgs # <<>> THEN {[db |-> d, messages |-> msgs]}
    ELSE {IF history # <<>>
          THEN [db |-> d, messages |-> history]
          ELSE LET w == welcome_msg(d.user_profile[profile_id].profile_name)
               IN [db |-> save_chat_message(d, profile_id, "assistant", w, FALSE).db,
                   messages |-> <<Turn("assistant", w)>>] :
             history \in load_chat_history(d, profile_id, FALSE)}

\* one run of the script from the top down to the chat input, with no widget
\* touched: init_db, the session's profile, the settings block, the transcript
PageTop(d, cur, msgs) ==
    LET d1 == init_db(d)
        all_profiles_list == get_all_profiles(d1)
        profile_id == IF cur = None THEN all_profiles_list[1][1] ELSE cur[1]
        current == get_profile_details(d1, profile_id)
        d2 == save_on_change(d1, profile_id, current, WidgetValues(current))
    IN {[db |-> run.db, current_profile_id |-> profile_id, messages |-> run.messages] :
            run \in chat_init(d2, profile_id, msgs)}

\* the same run as far as the end of the sidebar (line 664), with no widget
\* touched: the store and the active profile when the log section is reached
PageSidebar(d, cur) ==
    LET d1 == init_db(d)
        all_profiles_list == get_all_profiles(d1)
        profile_id == IF cur = None THEN all_profiles_list[1][1] ELSE cur[1]
        current == get_profile_details(d1, profile_id)
    IN [db |-> save_on_change(d1, profile_id, current, WidgetValues(current)),
        current_profile_id |-> profile_id]

CanRun == "Default" \in ProfileNames(db) \/ db.seq_user_profile < MaxId

\* a page load or rerun with no event
PageLoad ==
    /\ pc = "idle"
    /\ CanRun
    /\ \E run \in PageTop(db, current_profile_id, messages) :
          /\ db' = run.db
          /\ current_profile_id' = Some(run.current_profile_id)
          /\ messages' = run.messages
    /\ ret' = NoResult("page")
    /\ api_calls' = 0
    /\ UNCHANGED <<foreign_keys, clock, pc, prompt, api_messages, response_stream,
                   chunks, bmi_input, ctx, ctx_string>>

\* --------------------------------------------- the Save Log Entry handler
\* save_weight_value without the test on log_type
save_weight_value_AnyType(log_type, log_weight) ==
    IF log_weight > 0 THEN Some(log_weight) ELSE None

\* line 689; log_weight is in tenths of a kilogram
save_weight_value(log_type, log_weight) ==
    IF log_type = "Weigh-in" /\ log_weight > 0 THEN Some(log_weight) ELSE None

\* lines 688-699; called: whether log_entry was called
save_log_entry(d, profile_id, log_note, log_weight, log_type, fault) ==
    IF strip(log_note) # "" \/ (log_type = "Weigh-in" /\ log_weight > 0)
    THEN LET logged == log_entry(d, profile_id, log_type, strip(log_note),
                                 save_weight_value(log_type, log_weight), fault)
         IN [db |-> logged.db, val |-> logged.val, called |-> TRUE]
    ELSE [db |-> d, val |-> FALSE, called |-> FALSE]

LogNotes == {"", " ", "ran 5k "}
LogWeights == {0, 712}
LogTypes == {"Workout", "Weigh-in", "Note"}

\* a page run in which the Save Log Entry button was pressed: the script down
\* to the button, the handler, then st.rerun() when the entry was saved and the
\* rest of the script when it was not
SaveLogEntry(log_note, log_weight, log_type, fault) ==
    /\ pc = "idle"
    /\ CanRun
    /\ LET side == PageSidebar(db, current_profile_id)
           saved == save_log_entry(side.db, side.current_profile_id, log_note,
                                   log_weight, log_type, fault)
           rest == IF saved.val
                   THEN PageTop(saved.db, Some(side.current_profile_id), messages)
                   ELSE chat_init(saved.db, side.current_profile_id, messages)
       IN /\ \E run \in rest :
                /\ db' = run.db
                /\ messages' = run.messages
          /\ current_profile_id' = Some(side.current_profile_id)
          /\ ret' = IF saved.called
                    THEN BoolResult("log_entry", side.current_profile_id, saved.val)
                    ELSE NoResult("page")
    /\ api_calls' = 0
    /\ UNCHANGED <<foreign_keys, clock, pc, prompt, api_messages, response_stream,
                   chunks, bmi_input, ctx, ctx_string>>

NextLogEntry ==
    \/ Tick
    \/ \E log_note \in LogNotes, log_weight \in LogWeights, log_type \in LogTypes,
          fault \in BOOLEAN :
          Len(db.workout_log) < MaxLog /\ SaveLogEntry(log_note, log_weight, log_type, fault)
    \/ \E i \in Ids : GetWeightHistory(i, FALSE)
    \/ \E i \in Ids : GetRecentLogs(i, FALSE)

SpecLogEntry == Init /\ [][NextLogEntry]_vars

\* -------------------------------------------------- the chat input handler
SYSTEM_PROMPT == "You are an advanced AI Fitness Coach. (...)"
ApiErrorPrefix == "Sorry, I encountered an"

\* str() of a REAL column kept in tenths: 1700 is "170.0"
FloatStr(tenths) == ToString(tenths \div 10) \o "." \o ToString(tenths % 10)

\* Python truthiness of an optional number / an optional text
NumTruthy(value) == value # None /\ value[1] # 0
StrTruthy(value) == value # None /\ value[1] # ""

RECURSIVE Join(_, _)
Join(parts, sep) ==
    IF parts = <<>> THEN ""
    ELSE IF Len(parts) = 1 THEN parts[1]
    ELSE parts[1] \o sep \o Join(Tail(parts), sep)

\* context_parts without the test on ctx_age
context_parts_AgeAlways(details) ==
    <<"Goal: " \o details[1], "Experience: " \o details[2]>>
        \o <<"Age: " \o (IF details[3] # None THEN ToString(details[3][1]) ELSE "None")>>
        \o (IF StrTruthy(details[4]) THEN <<"Sex: " \o details[4][1]>> ELSE <<>>)
        \o (IF NumTruthy(details[5]) THEN <<"Height: " \o FloatStr(details[5][1]) \o " cm">> ELSE <<>>)
        \o (IF NumTruthy(details[6]) THEN <<"Weight: " \o FloatStr(details[6][1]) \o " kg">> ELSE <<>>)
        \o (IF StrTruthy(details[7]) THEN <<"Activity Level: " \o details[7][1]>> ELSE <<>>)
        \o (IF StrTruthy(details[8]) THEN <<"Dietary Notes: " \o details[8][1]>> ELSE <<>>)
        \o (IF StrTruthy(details[9]) THEN <<"Equipment: " \o details[9][1]>> ELSE <<>>)
        \o (IF StrTruthy(details[10]) THEN <<"General Notes: " \o details[10][1]>> ELSE <<>>)

context_parts(details) ==
    <<"Goal: " \o details[1], "Experience: " \o details[2]>>
        \o (IF NumTruthy(details[3]) THEN <<"Age: " \o ToString(details[3][1])>> ELSE <<>>)
        \o (IF StrTruthy(details[4]) THEN <<"Sex: " \o details[4][1]>> ELSE <<>>)
        \o (IF NumTruthy(details[5]) THEN <<"Height: " \o FloatStr(details[5][1]) \o " cm">> ELSE <<>>)
        \o (IF NumTruthy(details[6]) THEN <<"Weight: " \o FloatStr(details[6][1]) \o " kg">> ELSE <<>>)
        \o (IF StrTruthy(details[7]) THEN <<"Activity Level: " \o details[7][1]>> ELSE <<>>)
        \o (IF StrTruthy(details[8]) THEN <<"Dietary Notes: " \o details[8][1]>> ELSE <<>>)
        \o (IF StrTruthy(details[9]) THEN <<"Equipment: " \o details[9][1]>> ELSE <<>>)
        \o (IF StrTruthy(details[10]) THEN <<"General Notes: " \o details[10][1]>> ELSE <<>>)

context_string(details) == Join(context_parts(details), "; ")

contextual_prompt(details, text) ==
    "(My Profile: " \o context_string(details) \o ")\\n\\n" \o text

\* submit_user_turn storing and showing the text with the profile preamble
submit_user_turn_WithContext(d, profile_id, msgs, text, fault) ==
    LET sent == contextual_prompt(get_profile_details(d, profile_id), text)
        saved == save_chat_message(d, profile_id, "user", sent, fault)
    IN [db |-> saved.db, val |-> saved.val, messages |-> Append(msgs, Turn("user", sent))]

\* lines 786-787: the user turn goes to the store, then to the transcript
submit_user_turn(d, profile_id, msgs, text, fault) ==
    LET saved == save_chat_message(d, profile_id, "user", text, fault)
    IN [db |-> saved.db, val |-> saved.val, messages |-> Append(msgs, Turn("user", text))]

\* lines 792-824: system prompt, the transcript but its last turn, then the
\* typed text with the profile context in front
build_api_messages(d, profile_id, msgs, text) ==
    <<Turn("system", SYSTEM_PROMPT)>>
        \o SubSeq(msgs, 1, Len(msgs) - 1)
        \o <<Turn("user", contextual_prompt(get_profile_details(d, profile_id), text))>>

Prompts == {"hello"}
Deltas == {"", " ", "Hi", "Sorry, I encountered an"}
ErrorMessages == {"timed out"}

ChatSubmit(text, fault) ==
    /\ pc = "idle"
    /\ CanRun
    /\ \E run \in PageTop(db, current_profile_id, messages) :
          LET sub == submit_user_turn(run.db, run.current_profile_id, run.messages, text, fault)
          IN /\ Len(run.messages) + 2 <= MaxTranscript
             /\ db' = sub.db
             /\ current_profile_id' = Some(run.current_profile_id)
             /\ messages' = sub.messages
             /\ ret' = BoolResult("save_chat_message", run.current_profile_id, sub.val)
             /\ ctx' = get_profile_details(sub.db, run.current_profile_id)
             /\ ctx_string' = context_string(get_profile_details(sub.db, run.current_profile_id))
             /\ api_messages' = build_api_messages(sub.db, run.current_profile_id,
                                                   sub.messages, text)
    /\ pc' = "calling"
    /\ prompt' = text
    /\ response_stream' = ""
    /\ chunks' = <<>>
    /\ api_calls' = 0
    /\ UNCHANGED <<foreign_keys, clock, bmi_input>>

\* stream_append putting the new chunk in front
stream_append_Prepend(stream, chunk_content) ==
    IF StrTruthy(chunk_content) THEN chunk_content[1] \o stream ELSE stream

\* lines 845-847: if chunk_content: response_stream += chunk_content
stream_append(stream, chunk_content) ==
    IF StrTruthy(chunk_content) THEN stream \o chunk_content[1] ELSE stream

\* the request is sent (if not yet) and one chunk arrives; its delta.content
\* is a text or None
ChatDelta(chunk_content) ==
    /\ pc \in {"calling", "streaming"}
    /\ Len(chunks) < MaxStream
    /\ chunks' = Append(chunks, chunk_content)
    /\ response_stream' = stream_append(response_stream, chunk_content)
    /\ pc' = "streaming"
    /\ api_calls' = 1
    /\ UNCHANGED <<foreign_keys, clock, db, ret, current_profile_id, messages, prompt,
                   api_messages, bmi_input, ctx, ctx_string>>

\* line 871: is the response kept?
kept(full_response) ==
    /\ full_response # ""
    /\ strip(full_response) # ""
    /\ ~startswith(full_response, ApiErrorPrefix)

\* lines 870-875, then the script ends
Finalize(full_response, fault) ==
    /\ IF kept(full_response)
       THEN LET saved == save_chat_message(db, current_profile_id[1], "assistant",
                                           full_response, fault)
            IN /\ db' = saved.db
               /\ ret' = BoolResult("save_chat_message", current_profile_id[1], saved.val)
               /\ messages' = Append(messages, Turn("assistant", full_response))
       ELSE UNCHANGED <<db, ret, messages>>
    /\ pc' = "idle"
    /\ prompt' = ""
    /\ api_messages' = <<>>
    /\ response_stream' = ""
    /\ chunks' = <<>>
    /\ ctx' = <<>>
    /\ ctx_string' = ""
    /\ api_calls' = 1
    /\ UNCHANGED <<foreign_keys, clock, current_profile_id, bmi_input>>

\* the stream ends without error
ChatStreamEnd(fault) ==
    /\ pc \in {"calling", "streaming"}
    /\ Finalize(response_stream, fault)

groq_error_response(message) ==
    "Sorry, I encountered an API error. Please check the console or logs for details: "
        \o message

exception_response(message) == "Sorry, an unexpected error occurred: " \o message

\* except GroqError, raised by the request or part-way through the stream
ChatGroqError(message, fault) ==
    /\ pc \in {"calling", "streaming"}
    /\ Finalize(groq_error_response(message), fault)

\* except Exception, raised by the request or part-way through the stream
ChatException(message, fault) ==
    /\ pc \in {"calling", "streaming"}
    /\ Finalize(exception_response(message), fault)

NextChat ==
    \/ Tick
    \/ PageLoad
    \/ \E text \in Prompts, fault \in BOOLEAN : ChatSubmit(text, fault)
    \/ \E chunk_content \in {None} \cup {Some(text) : text \in Deltas} :
          ChatDelta(chunk_content)
    \/ \E fault \in BOOLEAN : ChatStreamEnd(fault)
    \/ \E message \in ErrorMessages, fault \in BOOLEAN : ChatGroqError(message, fault)
    \/ \E message \in ErrorMessages, fault \in BOOLEAN : ChatException(message, fault)

SpecChat == Init /\ [][NextChat]_vars

\* ---- the context preamble as a function of the profile tuple
OptionalOf(v) == {None, Some(v)}

ContextInputs ==
    {<<"Lose fat", "Beginner", age, sex, height, weight, activity, diet, equip, notes>> :
        age \in OptionalOf(30), sex \in OptionalOf("Female"),
        height \in OptionalOf(1755), weight \in OptionalOf(700),
        activity \in OptionalOf("Sedentary (little to no exercise)"),
        diet \in OptionalOf("vegan"), equip \in OptionalOf("dumbbells"),
        notes \in OptionalOf("bad knee")}

InitContext ==
    /\ foreign_keys \in BOOLEAN
    /\ clock = 0
    /\ db = init_db(EmptyDb)
    /\ ret = NoResult("init_db")
    /\ api_calls = 0
    /\ current_profile_id = None
    /\ messages = <<>>
    /\ pc = "idle"
    /\ prompt = ""
    /\ api_messages = <<>>
    /\ response_stream = ""
    /\ chunks = <<>>
    /\ bmi_input = <<>>
    /\ ctx \in ContextInputs
    /\ ctx_string = ""

\* lines 807-820 applied to the tuple
BuildContext ==
    /\ ret.op # "context_string"
    /\ ctx_string' = context_string(ctx)
    /\ ret' = NoResult("context_string")
    /\ UNCHANGED <<foreign_keys, clock, db, api_calls, current_profile_id, messages, pc,
                   prompt, api_messages, response_stream, chunks, bmi_input, ctx>>

NextContext == BuildContext

SpecContext == InitContext /\ [][NextContext]_vars

\* ------------------------------------------------- the sidebar's handlers
\* Each action is one page run in which one widget of the sidebar was used:
\* the script down to the widget, its handler, and then either st.rerun() (a
\* new run from the top) or the rest of the script.  No store write fails.
MaxTurns == 3       \* most rows of chat_history in SpecSession

\* the session's profile at the top of a run (lines 310-319)
session_profile(d, cur) == IF cur = None THEN get_all_profiles(d)[1][1] ELSE cur[1]

\* lines 475-480: another profile is chosen in the "Active Profile" selectbox
SelectProfile(selected_profile_name) ==
    /\ pc = "idle"
    /\ CanRun
    /\ LET d1 == init_db(db)
           selected == {i \in ProfileIds(d1) :
                           d1.user_profile[i].profile_name = selected_profile_name}
       IN /\ selected # {}
          /\ \E selected_profile_id \in selected :
                /\ selected_profile_id # session_profile(d1, current_profile_id)
                /\ \E run \in PageTop(d1, Some(selected_profile_id), <<>>) :
                      /\ db' = run.db
                      /\ messages' = run.messages
                /\ current_profile_id' = Some(selected_profile_id)
    /\ ret' = NoResult("page")
    /\ api_calls' = 0
    /\ UNCHANGED <<foreign_keys, clock, pc, prompt, api_messages, response_stream,
                   chunks, bmi_input, ctx, ctx_string>>

\* lines 489-504: the Create Profile button, with a name that is not blank
CreateProfileClick(new_profile_name, api) ==
    /\ pc = "idle"
    /\ CanRun
    /\ LET d1 == init_db(db)
           profile_id == session_profile(d1, current_profile_id)
           created == create_profile(d1, strip(new_profile_name), FALSE)
           scheduled == IF created.val # None
                        THEN generate_and_save_schedule(created.db, created.val[1], api, FALSE)
                        ELSE [db |-> created.db, val |-> FALSE, calls |-> 0]
       IN /\ d1.seq_user_profile < MaxId
          /\ \E run \in PageTop(scheduled.db, Some(profile_id), messages) :
                /\ db' = run.db
                /\ messages' = run.messages
          /\ current_profile_id' = Some(profile_id)
          /\ ret' = IdResult("create_profile", strip(new_profile_name), created.val)
          /\ api_calls' = scheduled.calls
    /\ UNCHANGED <<foreign_keys, clock, pc, prompt, api_messages, response_stream,
                   chunks, bmi_input, ctx, ctx_string>>

\* lines 507-516: the Delete Profile button
DeleteProfileClick ==
    /\ pc = "idle"
    /\ CanRun
    /\ LET d1 == init_db(db)
           profile_id == session_profile(d1, current_profile_id)
           deleted == delete_profile(d1, profile_id, FALSE)
           rest == IF deleted.val
                   THEN PageTop(deleted.db, None, <<>>)
                   ELSE PageTop(deleted.db, Some(profile_id), messages)
       IN /\ deleted.val => init_db(deleted.db).seq_user_profile <= MaxId
          /\ \E run \in rest :
                /\ db' = run.db
                /\ messages' = run.messages
                /\ current_profile_id' = Some(run.current_profile_id)
          /\ ret' = BoolResult("delete_profile", profile_id, deleted.val)
    /\ api_calls' = 0
    /\ UNCHANGED <<foreign_keys, clock, pc, prompt, api_messages, response_stream,
                   chunks, bmi_input, ctx, ctx_string>>

\* lines 584-593: the Regenerate Schedule Suggestion button
RegenerateClick(api) ==
    /\ pc = "idle"
    /\ CanRun
    /\ LET d1 == init_db(db)
           profile_id == session_profile(d1, current_profile_id)
           scheduled == generate_and_save_schedule(d1, profile_id, api, FALSE)
           rest == IF scheduled.val
                   THEN PageTop(scheduled.db, Some(profile_id), <<>>)
                   ELSE PageTop(scheduled.db, Some(profile_id), messages)
       IN /\ \E run \in rest :
                /\ db' = run.db
                /\ messages' = run.messages
          /\ current_profile_id' = Some(profile_id)
          /\ ret' = BoolResult("generate_and_save_schedule", profile_id, scheduled.val)
          /\ api_calls' = scheduled.calls
    /\ UNCHANGED <<foreign_keys, clock, pc, prompt, api_messages, response_stream,
                   chunks, bmi_input, ctx, ctx_string>>

cleared_msg(selected_profile_name) ==
    "Chat history for '" \o selected_profile_name \o "' cleared! How can I help you?"

\* lines 655-664: the Clear History button
ClearHistoryClick ==
    /\ pc = "idle"
    /\ CanRun
    /\ LET side == PageSidebar(db, current_profile_id)
           profile_id == side.current_profile_id
           cleared == clear_profile_history(side.db, profile_id, FALSE)
           welcome == cleared_msg(side.db.user_profile[profile_id].profile_name)
           saved == save_chat_message(cleared.db, profile_id, "assistant", welcome, FALSE)
       IN /\ \E run \in PageTop(saved.db, Some(profile_id), <<Turn("assistant", welcome)>>) :
                /\ db' = run.db
                /\ messages' = run.messages
          /\ current_profile_id' = Some(profile_id)
          /\ ret' = BoolResult("clear_profile_history", profile_id, cleared.val)
    /\ api_calls' = 0
    /\ UNCHANGED <<foreign_keys, clock, pc, prompt, api_messages, response_stream,
                   chunks, bmi_input, ctx, ctx_string>>

ScheduleOutcomes ==
    {[kind |-> "ok", content |-> "Week 1 plan..."],
     [kind |-> "GroqError", content |-> "rate limit"]}

\* ---- one browser session: page loads, chat turns and the sidebar's buttons
NextSession ==
    \/ Tick
    \/ PageLoad
    \/ \E text \in Prompts : Len(db.chat_history) < MaxTurns /\ ChatSubmit(text, FALSE)
    \/ ChatDelta(Some("Hi"))
    \/ ChatStreamEnd(FALSE)
    \/ \E message \in ErrorMessages : ChatGroqError(message, FALSE)
    \/ \E message \in ErrorMessages : ChatException(message, FALSE)
    \/ \E n \in Names : SelectProfile(n)
    \/ \E n \in Names, api \in ScheduleOutcomes :
          Len(db.chat_history) < MaxTurns /\ CreateProfileClick(n, api)
    \/ DeleteProfileClick
    \/ \E api \in ScheduleOutcomes :
          Len(db.chat_history) < MaxTurns /\ RegenerateClick(api)
    \/ Len(db.chat_history) < MaxTurns /\ ClearHistoryClick

SpecSession == Init /\ [][NextSession]_vars

\* ------------------------------------------------------------ calculate_bmi
\* Weights and heights are in tenths (70.0 kg is 700, 175.0 cm is 1750), a BMI
\* in tenths too.  With W and H in tenths, bmi = W * 10^5 / H^2, so
\* 10 * bmi = W * 10^6 / H^2.  The code works in doubles: where the exact
\* quotient lies on a rounding tie or on a threshold, the double may fall on
\* either side, and both outcomes are kept.
InvalidBmi == "Enter valid height and weight"

\* the possible values of (bmi < threshold), the threshold in tenths
bmi_below(W, H, threshold) ==
    IF W * 1000000 = threshold * H * H THEN BOOLEAN
    ELSE {W * 1000000 < threshold * H * H}

\* bmi_round cutting the second decimal off
bmi_round_Truncates(W, H) == {(W * 1000000) \div (H * H)}

\* the possible values of round(bmi, 1), in tenths
bmi_round(W, H) ==
    LET floor == (W * 1000000) \div (H * H)
        rest == (W * 1000000) % (H * H)
    IN IF 2 * rest < H * H THEN {floor}
       ELSE IF 2 * rest > H * H THEN {floor + 1}
       ELSE {floor, floor + 1}

\* lines 351-358
bmi_category(W, H) ==
    {IF below_18_5 THEN "Underweight"
     ELSE IF below_24_9 THEN "Normal weight"
     ELSE IF ~below_25 /\ below_29_9 THEN "Overweight"
     ELSE "Obesity" :
        below_18_5 \in bmi_below(W, H, 185), below_24_9 \in bmi_below(W, H, 249),
        below_25 \in bmi_below(W, H, 250), below_29_9 \in bmi_below(W, H, 299)}

\* the set of (bmi, category) calculate_bmi may return
calculate_bmi(weight_kg, height_cm) ==
    IF ~NumTruthy(weight_kg) \/ ~NumTruthy(height_cm)
          \/ height_cm[1] <= 0 \/ weight_kg[1] <= 0
    THEN {<<None, InvalidBmi>>}
    ELSE {<<Some(bmi), category>> :
             bmi \in bmi_round(weight_kg[1], height_cm[1]),
             category \in bmi_category(weight_kg[1], height_cm[1])}

BmiWeights == {None, Some(0), Some(0 - 5), Some(200), Some(535), Some(640), Some(700),
               Some(702), Some(719), Some(720), Some(722), Some(723), Some(864),
               Some(865), Some(1500)}
BmiHeights == {None, Some(0), Some(0 - 1700), Some(500), Some(1600), Some(1700),
               Some(1750), Some(2000)}

InitBmi ==
    /\ foreign_keys \in BOOLEAN
    /\ clock = 0
    /\ db = init_db(EmptyDb)
    /\ ret = NoResult("init_db")
    /\ api_calls = 0
    /\ current_profile_id = None
    /\ messages = <<>>
    /\ pc = "idle"
    /\ prompt = ""
    /\ api_messages = <<>>
    /\ response_stream = ""
    /\ chunks = <<>>
    /\ bmi_input \in BmiWeights \X BmiHeights
    /\ ctx = <<>>
    /\ ctx_string = ""

\* line 559 with the two values
CalculateBmi ==
    /\ ret.op # "calculate_bmi"
    /\ \E result \in calculate_bmi(bmi_input[1], bmi_input[2]) :
          ret' = DetailsResult("calculate_bmi", 0, result)
    /\ UNCHANGED <<foreign_keys, clock, db, api_calls, ui>>

NextBmi == CalculateBmi

SpecBmi == InitBmi /\ [][NextBmi]_vars

\* ================================================================ claims

\* ---- C1 (as claimed): after delete_profile(P) succeeds for a profile P, no
\* chat_history row and no workout_log row has profile_id = P, and the rows
\* of every other profile are still there, unchanged.
C1_CascadeDelete ==
    [][\A i \in Ids :
          (ret'.op = "delete_profile" /\ i \in ProfileIds(db)
              /\ DeleteProfile(i, FALSE) /\ ret'.ok)
              => /\ RowsOf(db'.chat_history, i) = <<>>
                 /\ RowsOf(db'.workout_log, i) = <<>>
                 /\ RowsNotOf(db'.chat_history, i) = RowsNotOf(db.chat_history, i)
                 /\ RowsNotOf(db'.workout_log, i) = RowsNotOf(db.workout_log, i)]_vars

\* ---- C2: with exactly one profile, delete_profile(id) returns False for
\* every id and leaves user_profile, chat_history and workout_log unchanged.
C2_LastProfileKept ==
    [][\A i \in Ids, fault \in BOOLEAN :
          (ret'.op = "delete_profile" /\ Cardinality(ProfileIds(db)) = 1
              /\ DeleteProfile(i, fault))
              => (~ret'.ok /\ db' = db)]_vars

C2_Witness ==
    /\ ret.op = "delete_profile"
    /\ ~ret.ok
    /\ ret.profile_id \in ProfileIds(db)
    /\ Cardinality(ProfileIds(db)) = 1
    /\ db.chat_history # <<>>
    /\ db.workout_log # <<>>

\* ---- C3: in every state reached by init_db, create_profile, update_profile
\* and delete_profile the profile table holds at least one profile.
C3_AtLeastOneProfile == Cardinality(ProfileIds(db)) >= 1

C3_Witness ==
    /\ ret.op = "delete_profile"
    /\ ret.ok
    /\ ret.profile_id \notin ProfileIds(db)
    /\ Cardinality(ProfileIds(db)) = 1
    /\ db.seq_user_profile >= 2

\* ---- C4: create_profile with the name of an existing profile returns None
\* and leaves the profiles unchanged; no two profiles ever share a name.
UniqueNames ==
    \A i, j \in ProfileIds(db) :
        db.user_profile[i].profile_name = db.user_profile[j].profile_name => i = j

C4_DuplicateNameRefused ==
    /\ []UniqueNames
    /\ [][\A n \in Names, fault \in BOOLEAN :
             (ret'.op = "create_profile" /\ n \in ProfileNames(db)
                 /\ CreateProfile(n, fault))
                 => (ret'.new_id = None /\ db'.user_profile = db.user_profile)]_vars

C4_Witness ==
    /\ ret.op = "create_profile"
    /\ ret.new_id = None
    /\ ret.profile_name \in ProfileNames(db)
    /\ Cardinality(ProfileIds(db)) = 2

\* ---- C7 (as claimed): load_chat_history(p) returns the turns of p in the
\* order they were appended, also when several were appended in one second.
AppendedTurns(d, profile_id) ==
    LET rows == RowsOf(d.chat_history, profile_id)
    IN [k \in 1..Len(rows) |-> [role |-> rows[k].role, content |-> rows[k].content]]

C7_LoadReturnsAppendOrder ==
    [][\A i \in Ids :
          (ret'.op = "load_chat_history" /\ LoadChatHistory(i, FALSE))
              => ret'.rows = AppendedTurns(db, i)]_vars

\* ---- C8: when generate_and_save_schedule(p) succeeds with completion text
\* T, exactly one turn is appended, an assistant turn of p, and its content is
\* the lead-in sentence, then [SCHEDULE_START], then exactly T, then
\* [SCHEDULE_END], each on a line of its own.
Slice(s, from, len) == SubSeq(s, from, from + len - 1)

WrapsSchedule(content, t) ==
    LET p1 == 1                                     \* the lead-in
        p2 == p1 + Len(LeadIn) + 1                  \* [SCHEDULE_START]
        p3 == p2 + Len(SCHEDULE_START) + 1          \* T
        p4 == p3 + Len(t) + 1                       \* [SCHEDULE_END]
    IN /\ Len(content) = p4 + Len(SCHEDULE_END) - 1
       /\ Slice(content, p1, Len(LeadIn)) = LeadIn
       /\ Slice(content, p2 - 1, 1) = "\n"
       /\ Slice(content, p2, Len(SCHEDULE_START)) = "[SCHEDULE_START]"
       /\ Slice(content, p3 - 1, 1) = "\n"
       /\ Slice(content, p3, Len(t)) = t
       /\ Slice(content, p4 - 1, 1) = "\n"
       /\ Slice(content, p4, Len(SCHEDULE_END)) = "[SCHEDULE_END]"

C8_ScheduleTurn ==
    [][\A i \in Ids, api \in ApiOutcomes, fault \in BOOLEAN :
          (ret'.op = "generate_and_save_schedule" /\ ret'.ok
              /\ GenerateAndSaveSchedule(i, api, fault))
              => LET n == Len(db.chat_history)
                 IN /\ api.kind = "ok"
                    /\ Len(db'.chat_history) = n + 1
                    /\ SubSeq(db'.chat_history, 1, n) = db.chat_history
                    /\ db'.chat_history[n + 1].profile_id = i
                    /\ db'.chat_history[n + 1].role = "assistant"
                    /\ WrapsSchedule(db'.chat_history[n + 1].content, api.content)]_vars

C8_Witness ==
    /\ ret.op = "generate_and_save_schedule"
    /\ ret.ok
    /\ api_calls = 1
    /\ ret.profile_id \in ProfileIds(db)
    /\ Len(db.chat_history) = 2
    /\ db.chat_history[1].profile_id = ret.profile_id
    /\ contains(db.chat_history[2].content, "Week 1 plan...")

\* ---- C9 (as claimed): generate_and_save_schedule(id) for an id that names
\* no profile returns False, makes no completion call and appends no turn.
C9_MissingProfileFails ==
    [][\A i \in Ids, api \in ApiOutcomes, fault \in BOOLEAN :
          (ret'.op = "generate_and_save_schedule" /\ i \notin ProfileIds(db)
              /\ GenerateAndSaveSchedule(i, api, fault))
              => (~ret'.ok /\ api_calls' = 0 /\ db'.chat_history = db.chat_history)]_vars

\* ---- C5 (as claimed): in a chat turn whose completion call fails, with a
\* GroqError or any other exception, before or part-way through the stream, no
\* assistant turn is written to chat_history and none is appended to messages.
C5_FailedTurnNotStored ==
    [][\A message \in ErrorMessages, fault \in BOOLEAN :
          (ChatGroqError(message, fault) \/ ChatException(message, fault))
              => (db'.chat_history = db.chat_history /\ messages' = messages)]_vars

\* ---- C6 (as claimed): while the completion request of a chat turn is about
\* to be sent or in flight, the user's text is already the last row of
\* chat_history, for the active profile, and the last turn of messages.
InFlight == pc \in {"calling", "streaming"}

UserTurnStored ==
    /\ db.chat_history # <<>>
    /\ LET last == db.chat_history[Len(db.chat_history)]
       IN /\ last.profile_id = current_profile_id[1]
          /\ last.role = "user"
          /\ last.content = prompt

UserTurnInTranscript ==
    /\ messages # <<>>
    /\ messages[Len(messages)] = Turn("user", prompt)

C6_UserTurnSavedFirst == InFlight => (UserTurnStored /\ UserTurnInTranscript)

\* ---- C6 (amended): the user's text is appended to messages, and
\* save_chat_message is called for it, before the request is sent; when that
\* save returned True the user turn is the last row of chat_history while the
\* request is in flight.  No request has been sent when the handler reaches
\* the call.
C6_UserTurnSavedFirstIfWriteOk ==
    /\ InFlight => UserTurnInTranscript
    /\ (InFlight /\ ret.ok) => UserTurnStored
    /\ InFlight => (ret.op = "save_chat_message" /\ ret.profile_id = current_profile_id[1])
    /\ pc = "calling" => api_calls = 0

C6_Witness ==
    /\ pc = "streaming"
    /\ api_calls = 1
    /\ ret.ok
    /\ UserTurnStored
    /\ UserTurnInTranscript
    /\ Len(messages) >= 2

\* ---- C10: the context string is "Goal: <goal>; Experience: <experience>"
\* followed, in the order age, sex, height, weight, activity, diet, equipment,
\* notes, by one "; "-separated entry for each optional attribute that is set
\* and none for one that is unset; with none set it is exactly
\* "Goal: <goal>; Experience: <experience>".
RECURSIVE SplitOn(_, _)
SplitOn(s, sep) ==
    IF \E k \in 1..(Len(s) - Len(sep) + 1) : SubSeq(s, k, k + Len(sep) - 1) = sep
    THEN LET k == CHOOSE k \in 1..(Len(s) - Len(sep) + 1) :
                     /\ SubSeq(s, k, k + Len(sep) - 1) = sep
                     /\ \A j \in 1..(k - 1) : SubSeq(s, j, j + Len(sep) - 1) # sep
         IN <<SubSeq(s, 1, k - 1)>> \o SplitOn(SubSeq(s, k + Len(sep), Len(s)), sep)
    ELSE <<s>>

OptionalLabels ==
    <<"Age: ", "Sex: ", "Height: ", "Weight: ", "Activity Level: ", "Dietary Notes: ",
      "Equipment: ", "General Notes: ">>

\* the labels of the optional attributes of the tuple that are set, in order
SetLabels(details) ==
    LET positions == SelectSeq(<<1, 2, 3, 4, 5, 6, 7, 8>>, LAMBDA k : details[k + 2] # None)
    IN [j \in 1..Len(positions) |-> OptionalLabels[positions[j]]]

C10_ContextString ==
    ret.op = "context_string"
        => LET entries == SplitOn(ctx_string, "; ")
               labels == SetLabels(ctx)
           IN /\ Len(entries) = 2 + Len(labels)
              /\ entries[1] = "Goal: " \o ctx[1]
              /\ entries[2] = "Experience: " \o ctx[2]
              /\ \A j \in 1..Len(labels) :
                    /\ startswith(entries[2 + j], labels[j])
                    /\ Len(entries[2 + j]) > Len(labels[j])
              /\ (labels = <<>>) => ctx_string = "Goal: " \o ctx[1] \o "; Experience: " \o ctx[2]

C10_Witness ==
    /\ ret.op = "context_string"
    /\ ctx[3] = None /\ ctx[5] = None
    /\ ctx[4] # None /\ ctx[6] # None /\ ctx[10] # None
    /\ ctx_string = "Goal: Lose fat; Experience: Beginner; Sex: Female; Weight: 70.0 kg; General Notes: bad knee"

\* ---- C11: the "(My Profile: ...)" preamble is in the last message of the
\* request and in no other; the user turn written to chat_history and the one
\* appended to messages are exactly the typed text, so no row of chat_history
\* and no turn of messages (hence no replayed turn) holds the preamble.
Preamble == "(My Profile: "

LastIs(turns, role, content) ==
    turns # <<>> /\ turns[Len(turns)] = Turn(role, content)

endswith(s, suffix) ==
    Len(s) >= Len(suffix) /\ SubSeq(s, Len(s) - Len(suffix) + 1, Len(s)) = suffix

C11_ContextOnlyOutbound ==
    /\ \A k \in 1..Len(db.chat_history) : ~contains(db.chat_history[k].content, Preamble)
    /\ \A k \in 1..Len(messages) : ~contains(messages[k].content, Preamble)
    /\ InFlight =>
          LET n == Len(api_messages)
          IN /\ n = Len(messages) + 1
             /\ api_messages[n].role = "user"
             /\ startswith(api_messages[n].content, Preamble)
             /\ endswith(api_messages[n].content, prompt)
             /\ \A k \in 1..(n - 1) : ~contains(api_messages[k].content, Preamble)
             /\ \A k \in 2..(n - 1) : api_messages[k] = messages[k - 1]
             /\ LastIs(messages, "user", prompt)
             /\ ret.ok => db.chat_history[Len(db.chat_history)].content = prompt

C11_Witness ==
    /\ pc = "calling"
    /\ ret.ok
    /\ Len(api_messages) = 3
    /\ api_messages[2].role = "assistant"
    /\ api_messages[3].content =
          "(My Profile: Goal: General Fitness; Experience: Beginner; Age: 18; "
              \o "Height: 170.0 cm; Weight: 70.0 kg; "
              \o "Activity Level: Sedentary (little to no exercise))\\n\\nhello"
    /\ db.chat_history[Len(db.chat_history)].content = "hello"

\* ---- C12 (as claimed): get_weight_history(p) holds only entries of p with
\* a non-null weight, one per distinct timestamp of such entries, in
\* increasing timestamp order, each with the weight written last for that
\* timestamp.
WeighIns(d, profile_id) ==
    SelectSeq(RowsOf(d.workout_log, profile_id), LAMBDA r : r.weight_kg # None)

LastWritten(rows, ts) ==
    rows[CHOOSE k \in 1..Len(rows) :
            /\ rows[k].timestamp = ts
            /\ \A j \in (k + 1)..Len(rows) : rows[j].timestamp # ts]

C12_WeightHistory ==
    [][\A i \in Ids :
          (ret'.op = "get_weight_history" /\ GetWeightHistory(i, FALSE))
              => LET rows == WeighIns(db, i)
                     series == ret'.rows
                 IN /\ \A k \in 1..Len(series) :
                          \E j \in 1..Len(rows) : rows[j].timestamp = series[k].timestamp
                    /\ \A j \in 1..Len(rows) :
                          \E k \in 1..Len(series) : series[k].timestamp = rows[j].timestamp
                    /\ \A k \in 1..(Len(series) - 1) :
                          series[k].timestamp < series[k + 1].timestamp
                    /\ \A k \in 1..Len(series) :
                          Some(series[k].weight_kg)
                              = LastWritten(rows, series[k].timestamp).weight_kg]_vars

\* ---- C13: when create_profile returns an id, load_chat_history of that id
\* is the empty list and no workout_log row has that id, whatever was created,
\* written and deleted before; load_chat_history of a profile just created
\* returns the empty list.
JustCreated(d, profile_id) ==
    /\ ret.op = "create_profile"
    /\ ret.new_id = Some(profile_id)

C13_NewProfileStartsEmpty ==
    /\ [][\A n \in Names :
             (ret'.op = "create_profile" /\ CreateProfile(n, FALSE) /\ ret'.new_id # None)
                 => LET new_id == ret'.new_id[1]
                    IN /\ new_id \in ProfileIds(db') \ ProfileIds(db)
                       /\ db'.user_profile[new_id].profile_name = n
                       /\ load_chat_history(db', new_id, FALSE) = {<<>>}
                       /\ RowsOf(db'.workout_log, new_id) = <<>>]_vars
    /\ [][\A i \in Ids :
             (ret'.op = "load_chat_history" /\ JustCreated(db, i) /\ LoadChatHistory(i, FALSE))
                 => ret'.rows = <<>>]_vars

C13_Witness ==
    /\ ret.op = "load_chat_history"
    /\ ret.profile_id = 3
    /\ ret.rows = <<>>
    /\ ProfileIds(db) = {1, 3}
    /\ \E k \in 1..Len(db.chat_history) : db.chat_history[k].profile_id = 2
    /\ \E k \in 1..Len(db.workout_log) : db.workout_log[k].profile_id = 2

\* ---- C14: get_profile_details(id) for an id that names no profile returns
\* ('General Fitness', 'Beginner', None, None, None, None, None, None, None,
\* None) and leaves the store unchanged.
C14_MissingProfileDefaults ==
    [][\A i \in Ids :
          (ret'.op = "get_profile_details" /\ i \notin ProfileIds(db) /\ GetProfileDetails(i))
              => /\ ret'.details = <<"General Fitness", "Beginner",
                                     <<>>, <<>>, <<>>, <<>>, <<>>, <<>>, <<>>, <<>>>>
                 /\ db' = db]_vars

C14_Witness ==
    /\ ret.op = "get_profile_details"
    /\ ret.profile_id = 2
    /\ ProfileIds(db) = {1, 3}
    /\ db.user_profile[1].details = FullDetails
    /\ Len(ret.details) = 10
    /\ ret.details[1] = "General Fitness"
    /\ ret.details[3] = None

\* ---- C15 (as claimed): what create_profile returns for a name that exists
\* differs from what it returns when the storage fails for another reason.
C15_DuplicateDistinguishable ==
    [][\A n \in Names :
          (ret'.op = "create_profile" /\ n \in ProfileNames(db) /\ CreateProfile(n, FALSE))
              => \A m \in Names : ret'.new_id # create_profile(db, m, TRUE).val]_vars

\* ---- C16: when the storage fails, load_chat_history, get_recent_logs and
\* get_weight_history return an empty result, save_chat_message,
\* clear_profile_history and log_entry return False, and the store is as it
\* was; each of them returns, none raises.
C16_BestEffortOnFailure ==
    [][\A i \in Ids :
          /\ (ret'.op = "load_chat_history" /\ LoadChatHistory(i, TRUE))
                => (ret'.rows = <<>> /\ db' = db)
          /\ (ret'.op = "get_recent_logs" /\ GetRecentLogs(i, TRUE))
                => (ret'.rows = <<>> /\ db' = db)
          /\ (ret'.op = "get_weight_history" /\ GetWeightHistory(i, TRUE))
                => (ret'.rows = <<>> /\ db' = db)
          /\ (ret'.op = "save_chat_message" /\ SaveChatMessage(i, "user", "hello", TRUE))
                => (~ret'.ok /\ db' = db)
          /\ (ret'.op = "clear_profile_history" /\ ClearProfileHistory(i, TRUE))
                => (~ret'.ok /\ db' = db)
          /\ (ret'.op = "log_entry" /\ LogEntry(i, "Weigh-in", "", Some(700), TRUE))
                => (~ret'.ok /\ db' = db)]_vars

C16_Witness ==
    /\ ret.op = "get_weight_history"
    /\ ret.rows = <<>>
    /\ WeighIns(db, ret.profile_id) # <<>>
    /\ RowsOf(db.chat_history, ret.profile_id) # <<>>

\* ---- C17: calculate_bmi returns (None, 'Enter valid height and weight')
\* when the weight or the height is missing, zero or negative; otherwise it
\* returns weight / (height/100)^2 to the nearest tenth, with a category; for
\* (70, 175) it returns (22.9, 'Normal weight').
ValidBmiInput ==
    /\ bmi_input[1] # None /\ bmi_input[1][1] > 0
    /\ bmi_input[2] # None /\ bmi_input[2][1] > 0

C17_CalculateBmi ==
    ret.op = "calculate_bmi"
        => /\ ~ValidBmiInput => ret.details = <<None, "Enter valid height and weight">>
           /\ ValidBmiInput =>
                 LET W == bmi_input[1][1]
                     H == bmi_input[2][1]
                     bmi == ret.details[1][1]
                     off == bmi * H * H - W * 1000000
                 IN /\ ret.details[1] # None
                    /\ 2 * off <= H * H /\ 2 * off >= 0 - H * H
                    /\ ret.details[2] \in {"Underweight", "Normal weight",
                                           "Overweight", "Obesity"}
           /\ bmi_input = <<Some(700), Some(1750)>>
                 => ret.details = <<Some(229), "Normal weight">>

C17_Witness ==
    /\ ret.op = "calculate_bmi"
    /\ bmi_input = <<Some(700), Some(1750)>>
    /\ ret.details = <<Some(229), "Normal weight">>

\* ---- C18 (as claimed): when the stream ends without error the response is
\* the received content deltas joined in the order received; unless it is
\* empty, whitespace only or starts with "Sorry, I encountered an", exactly
\* one assistant turn with that text is added to chat_history and one to
\* messages; otherwise neither changes.
RECURSIVE ConcatDeltas(_)
ConcatDeltas(received) ==
    IF received = <<>> THEN ""
    ELSE (IF Head(received) = None THEN "" ELSE Head(received)[1])
            \o ConcatDeltas(Tail(received))

WhitespaceOnly(text) == \A k \in 1..Len(text) : SubSeq(text, k, k) \in {" ", "\n", "\t"}

Discarded(text) ==
    WhitespaceOnly(text) \/ startswith(text, "Sorry, I encountered an")

AssistantRowAdded(text) ==
    /\ Len(db'.chat_history) = Len(db.chat_history) + 1
    /\ SubSeq(db'.chat_history, 1, Len(db.chat_history)) = db.chat_history
    /\ LET row == db'.chat_history[Len(db'.chat_history)]
       IN /\ row.profile_id = current_profile_id[1]
          /\ row.role = "assistant"
          /\ row.content = text

C18_StreamEndStoresResponse ==
    [][\A fault \in BOOLEAN :
          (pc' = "idle" /\ ChatStreamEnd(fault))
              => LET text == ConcatDeltas(chunks)
                 IN IF Discarded(text)
                    THEN db'.chat_history = db.chat_history /\ messages' = messages
                    ELSE /\ AssistantRowAdded(text)
                         /\ messages' = Append(messages, Turn("assistant", text))]_vars

\* ---- C18 (amended): as above, but the assistant turn is added to
\* chat_history only when save_chat_message succeeds; when the write fails it
\* returns False, chat_history is unchanged and the turn is appended to
\* messages all the same.
C18_StreamEndStoresResponseIfWriteOk ==
    [][\A fault \in BOOLEAN :
          (pc' = "idle" /\ ChatStreamEnd(fault))
              => LET text == ConcatDeltas(chunks)
                 IN IF Discarded(text)
                    THEN db'.chat_history = db.chat_history /\ messages' = messages
                    ELSE /\ ret'.op = "save_chat_message"
                         /\ ret'.profile_id = current_profile_id[1]
                         /\ ret'.ok => AssistantRowAdded(text)
                         /\ ~ret'.ok => db'.chat_history = db.chat_history
                         /\ messages' = Append(messages, Turn("assistant", text))]_vars

C18_Witness ==
    /\ pc = "idle"
    /\ ret.op = "save_chat_message"
    /\ ret.ok
    /\ api_calls = 1
    /\ LastIs(messages, "assistant", "Hi ")
    /\ db.chat_history[Len(db.chat_history)].content = "Hi "
    /\ db.chat_history[Len(db.chat_history)].role = "assistant"

\* ---- C19 (as claimed): once the store is initialised, a profile comes into
\* existence only through create_profile; the init_db of a later page run
\* adds none, so a 'Default' that was deleted stays deleted.
C19_DefaultSeededOnce ==
    [][(ProfileIds(db') \ ProfileIds(db) # {}) => ret'.op = "create_profile"]_vars

\* ---- C20: a workout_log row written by the Save Log Entry handler has a
\* weight only if its log_type is 'Weigh-in', and then a weight above 0; a
\* 'Workout' or 'Note' row has none, and every item of get_weight_history is
\* the weight of a 'Weigh-in' row of that timestamp.
C20_WeightOnlyForWeighIn ==
    /\ [](\A k \in 1..Len(db.workout_log) :
             LET row == db.workout_log[k]
             IN /\ row.log_type \in {"Workout", "Note"} => row.weight_kg = <<>>
                /\ row.weight_kg # <<>> => (row.log_type = "Weigh-in" /\ row.weight_kg[1] > 0))
    /\ [][\A i \in Ids :
             (ret'.op = "get_weight_history" /\ GetWeightHistory(i, FALSE))
                 => \A n \in 1..Len(ret'.rows) :
                       \E k \in 1..Len(db.workout_log) :
                          /\ db.workout_log[k].profile_id = i
                          /\ db.workout_log[k].log_type = "Weigh-in"
                          /\ db.workout_log[k].timestamp = ret'.rows[n].timestamp
                          /\ db.workout_log[k].weight_kg = <<ret'.rows[n].weight_kg>>]_vars

C20_Witness ==
    /\ ret.op = "get_weight_history"
    /\ Len(ret.rows) = 1
    /\ ret.rows[1].weight_kg = 712
    /\ Len(db.workout_log) = 2
    /\ db.workout_log[1].log_type = "Workout"
    /\ db.workout_log[1].notes = "ran 5k"
    /\ db.workout_log[1].weight_kg = <<>>
    /\ db.workout_log[2].log_type = "Weigh-in"
    /\ db.workout_log[2].notes = ""

\* ---- C22 (as claimed): a page run in which no settings widget is edited
\* leaves the stored attributes of the active profile as they were; an
\* attribute that was unset stays unset.
C22_NoEditNoUpdate ==
    [][(ret'.op = "page" /\ PageLoad)
          => LET p == current_profile_id'[1]
             IN p \in ProfileIds(db)
                   => db'.user_profile[p].details = db.user_profile[p].details]_vars

\* ---- C23 (as claimed): with Underweight < Normal weight < Overweight <
\* Obesity, the category never goes down as the BMI goes up, and no BMI below
\* 29.9 is classed as Obesity.
CategoryRank(category) ==
    CASE category = "Underweight" -> 1
      [] category = "Normal weight" -> 2
      [] category = "Overweight" -> 3
      [] category = "Obesity" -> 4

\* the exact BMI (W and H in tenths) in thousandths, rounded down
BmiMilli(W, H) ==
    ((W * 1000000) \div (H * H)) * 100 + (((W * 1000000) % (H * H)) * 100) \div (H * H)

ValidBmiPairs ==
    {pair \in BmiWeights \X BmiHeights :
        /\ pair[1] # None /\ pair[1][1] > 0
        /\ pair[2] # None /\ pair[2][1] > 0}

C23_CategoryMonotone ==
    (ret.op = "calculate_bmi" /\ ValidBmiInput)
        => LET W == bmi_input[1][1]
               H == bmi_input[2][1]
               category == ret.details[2]
           IN /\ W * 1000000 < 299 * H * H => category # "Obesity"
              /\ \A other \in ValidBmiPairs :
                    \A result \in calculate_bmi(other[1], other[2]) :
                       BmiMilli(W, H) < BmiMilli(other[1][1], other[2][1])
                           => CategoryRank(category) <= CategoryRank(result[2])

\* ---- C21 (as claimed): no store write failing, at the end of every page
\* run messages is what load_chat_history returns for the active profile,
\* after any chat turns, profile switches, history clears, schedule
\* regenerations and profile creations and deletions.
EndOfPageRun == pc = "idle" /\ current_profile_id # None

C21_TranscriptIsStoredHistory ==
    EndOfPageRun
        => \A history \in load_chat_history(db, current_profile_id[1], FALSE) :
              messages = history

====
